---- MODULE Spec2Model ----
(***************************************************************************)
(* Terminal portfolio (Preact): the useTerminal hook (output history,      *)
(* typing animation, command router), the formatters it calls, and the     *)
(* LoginPanel / App stage machine.                                         *)
(*                                                                         *)
(* Strings are sequences.  A command string is a sequence of one-character *)
(* strings, so that slice(), the switch comparison, toUpperCase() and      *)
(* replace(/\n/g, ...) act character by character.  A literal piece of a   *)
(* template whose inner characters no operation inspects is one element.   *)
(*                                                                         *)
(* One step of the model is one JavaScript task: the code from a click or  *)
(* a timer callback up to the next await / return.  The continuation of    *)
(* `await typeCommand(cmd)` is a microtask: it runs before any other timer *)
(* or click, but after the render Preact queued, so the state between the  *)
(* two is a state of the model as well.                                    *)
(*                                                                         *)
(* Specifications: Spec (the hook's API, invocations may overlap), FairSpec *)
(* (Spec with fair timers), SerialSpec and RepeatSpec (serialized          *)
(* invocations), LoginSpec (LoginPanel inside App), AutoLoginSpec (the     *)
(* login simulation left to its timers), AppSpec (App with its sixteen     *)
(* command buttons), FormatSpec (the formatters applied to records of any  *)
(* shape).                                                                 *)
(***************************************************************************)
EXTENDS Integers, Sequences, FiniteSets, TLC

VARIABLES
    output,           \* useTerminal: OutputItem[]
    isTyping,         \* useTerminal: boolean
    isTypingCommand,  \* useTerminal: boolean
    hasInteracted,    \* useTerminal: boolean
    calls,            \* runCommand invocations not yet completed
    timerQueue,       \* pending setTimeout(res, 40) of typeCommand, oldest first
    runs,             \* number of runCommand invocations started
    mounted,          \* App is mounted
    stage,            \* App: "login" | "terminal"
    menuOpen,         \* App: boolean
    panelMounted,     \* LoginPanel is mounted
    userText,         \* LoginPanel: string
    passText,         \* LoginPanel: string
    loginI,           \* LoginPanel effect: let i
    loginJ,           \* LoginPanel effect: let j
    loginTimers,      \* LoginPanel: timers scheduled and not yet fired or cleared
    onLoginCalls,     \* number of times the onLogin callback has run
    section,          \* formatter under application
    record,           \* its argument
    rendered,         \* its result
    lastRun,          \* history variable: the latest completed execution
    innerWidth        \* window.innerWidth

termVars == <<output, isTyping, isTypingCommand, hasInteracted, calls, timerQueue, runs>>

loginVars == <<stage, menuOpen, panelMounted, userText, passText, loginI, loginJ,
               loginTimers, onLoginCalls>>

appVars == <<output, isTyping, isTypingCommand, hasInteracted, calls, timerQueue, runs,
             mounted, stage, menuOpen, panelMounted, userText, passText, loginI, loginJ,
             loginTimers, onLoginCalls, innerWidth>>

fmtVars == <<section, record, rendered>>

vars == <<appVars, fmtVars, lastRun>>

----------------------------------------------------------------------------
(* Bounds of the model *)

\* number of runCommand invocations in one behaviour
MaxRuns == 2

\* longest generated command string (besides the vocabulary and its variants)
MaxLen == 2

----------------------------------------------------------------------------
(* String helpers (JavaScript String methods) *)

\* s.slice(0, n)
slice0(s, n) == SubSeq(s, 1, n)

LowerLetters == <<"a","b","c","d","e","f","g","h","i","j","k","l","m",
                  "n","o","p","q","r","s","t","u","v","w","x","y","z">>

UpperLetters == <<"A","B","C","D","E","F","G","H","I","J","K","L","M",
                  "N","O","P","Q","R","S","T","U","V","W","X","Y","Z">>

toUpperChar(c) ==
    IF \E k \in 1..Len(LowerLetters) : LowerLetters[k] = c
    THEN UpperLetters[CHOOSE k \in 1..Len(LowerLetters) : LowerLetters[k] = c]
    ELSE c

\* s.toUpperCase()
toUpperCase(s) == [k \in 1..Len(s) |-> toUpperChar(s[k])]

RECURSIVE Flatten(_)
\* concatenation of a sequence of strings
Flatten(ss) == IF ss = <<>> THEN <<>> ELSE Head(ss) \o Flatten(Tail(ss))

RECURSIVE join(_, _)
\* array.join(sep)
join(ss, sep) ==
    IF ss = <<>> THEN <<>>
    ELSE IF Len(ss) = 1 THEN ss[1]
    ELSE ss[1] \o sep \o join(Tail(ss), sep)

\* s occurs in t as a contiguous run of characters
Contains(t, s) ==
    \E k \in 0..(Len(t) - Len(s)) : SubSeq(t, k + 1, k + Len(s)) = s

----------------------------------------------------------------------------
(* JavaScript values of the content records *)

\* the value of a missing field; no string is equal to it
undefined == <<"#undefined">>

\* `${v}` in a template literal
Str(v) == IF v = undefined THEN <<"undefined">> ELSE v

\* v as the condition of ?: or the left side of || (strings and undefined)
Truthy(v) == v # undefined /\ v # <<>>

\* the result of a call that throws a TypeError
TypeError == <<"#TypeError">>

NL == <<"\n">>

----------------------------------------------------------------------------
(* Formatters (utils/formatters).  Non-ASCII glyphs of the templates are    *)
(* written in ASCII: the bullet as "*", accented capitals unaccented.       *)

\* properties every object literal inherits from Object.prototype
InheritedKeys == {<<"constructor">>, <<"toString">>, <<"valueOf">>, <<"hasOwnProperty">>}

\* colors[color]
colorsGet(color) ==
    CASE color = <<"green">>  -> <<"#00ff00">>
      [] color = <<"orange">> -> <<"#ff9900">>
      [] color = <<"red">>    -> <<"#ff3333">>
      [] color = <<"blue">>   -> <<"#3399ff">>
      [] color = <<"yellow">> -> <<"#ffff66">>
      [] color = <<"white">>  -> <<"#ffffff">>
      [] color \in InheritedKeys -> <<"function ">> \o color
      [] OTHER -> undefined

colorIcon(icon, color) ==
    LET hex == IF Truthy(colorsGet(color)) THEN colorsGet(color) ELSE <<"#ffffff">>
    IN  <<"<span style=\"color:">> \o Str(hex) \o <<"\">">> \o Str(icon) \o <<"</span>">>

sectionSeparator == <<"-----------------------------------------">>

\* mutant of formatWhoami: the output carries a count kept outside the record
formatWhoamiCounting(data) ==
    NL \o <<"Nombre: ">> \o Str(data.name) \o NL
       \o <<"Rol: ">> \o Str(data.role) \o NL
       \o NL
       \o Str(data.text) \o NL
       \o <<ToString(runs)>>

formatWhoami(data) ==
    NL \o <<"Nombre: ">> \o Str(data.name) \o NL
       \o <<"Rol: ">> \o Str(data.role) \o NL
       \o NL
       \o Str(data.text) \o NL

\* Array.isArray(v): v is not the missing value (compared through ToString, since
\* an array of records is not comparable with a string)
isArray(v) == ToString(v) # ToString(undefined)

\* v.map(...), v.join(...) or v.toUpperCase() throws: v is undefined
throwsOn(v) == ~isArray(v)

\* `${colorIcon(item.icon, item.color)} ${item.text}`
iconLine(item) == colorIcon(item.icon, item.color) \o <<" ">> \o Str(item.text)

\* `${t.icon ? colorIcon(t.icon, t.color) : "-"} ${t.text}`
iconOrDashLine(t) ==
    (IF Truthy(t.icon) THEN colorIcon(t.icon, t.color) ELSE <<"-">>) \o <<" ">> \o Str(t.text)

formatPerfil(data) ==
    IF throwsOn(data.specialization) \/ throwsOn(data.goals) \/ throwsOn(data.title)
    THEN TypeError
    ELSE
    LET specialization ==
            join([k \in 1..Len(data.specialization) |-> iconLine(data.specialization[k])], NL)
        goals ==
            join([k \in 1..Len(data.goals) |-> iconLine(data.goals[k])], NL)
    IN  NL \o <<"=== ">> \o toUpperCase(data.title) \o <<" ===">> \o NL
           \o NL
           \o Str(data.description) \o NL
           \o NL
           \o <<"=== ESPECIALIZACION ===">> \o NL
           \o specialization \o NL
           \o NL
           \o <<"=== OBJETIVOS ===">> \o NL
           \o goals \o NL

estudiosItem(item) ==
    NL \o Str(item.id) \o <<" ">> \o Str(item.titulo) \o <<" (">> \o Str(item.inicio)
       \o <<" - ">> \o Str(item.fin) \o <<")">> \o NL
       \o <<"     * Centro: ">> \o Str(item.centro) \o NL
       \o <<"     * Ubicacion: ">> \o Str(item.ubicacion) \o NL
       \o join([k \in 1..Len(item.temas) |-> <<"     ">> \o iconOrDashLine(item.temas[k])], NL)
       \o NL

formatEstudios(data) ==
    IF \/ throwsOn(data.title)
       \/ throwsOn(data.items)
       \/ \E k \in 1..Len(data.items) : throwsOn(data.items[k].temas)
    THEN TypeError
    ELSE
    NL \o <<"=== ">> \o toUpperCase(data.title) \o <<" ===">> \o NL
       \o join([k \in 1..Len(data.items) |-> estudiosItem(data.items[k])], NL)
       \o NL

\* `${colorIcon(group.icon, group.color)} ${group.title}: ${group.items.join(", ")}`
stackLine(group) ==
    colorIcon(group.icon, group.color) \o <<" ">> \o Str(group.title) \o <<": ">>
        \o join(group.items, <<", ">>)

experienciaItem(item) ==
    NL \o Str(item.id) \o <<" ">> \o Str(item.puesto) \o <<" (">> \o Str(item.inicio)
       \o <<" - ">> \o Str(item.fin) \o <<")">> \o NL
       \o <<"     * Empresa: ">> \o Str(item.empresa) \o NL
       \o <<"     * Ubicacion: ">> \o Str(item.ubicacion) \o NL
       \o NL
       \o <<"     * Responsabilidades:">> \o NL
       \o join([k \in 1..Len(item.responsabilidades) |->
                  <<"     ">> \o iconOrDashLine(item.responsabilidades[k])], NL)
       \o NL
       \o NL
       \o <<"     * Logros:">> \o NL
       \o join([k \in 1..Len(item.logros) |-> <<"     ">> \o iconLine(item.logros[k])], NL)
       \o NL
       \o NL
       \o <<"     * Stack:">> \o NL
       \o join([k \in 1..Len(item.stackGroups) |-> <<"     ">> \o stackLine(item.stackGroups[k])], NL)
       \o NL

formatExperiencia(data) ==
    IF \/ throwsOn(data.title)
       \/ throwsOn(data.items)
       \/ \E k \in 1..Len(data.items) :
              \/ throwsOn(data.items[k].responsabilidades)
              \/ throwsOn(data.items[k].logros)
              \/ throwsOn(data.items[k].stackGroups)
              \/ \E g \in 1..Len(data.items[k].stackGroups) :
                     throwsOn(data.items[k].stackGroups[g].items)
    THEN TypeError
    ELSE
    NL \o <<"=== ">> \o toUpperCase(data.title) \o <<" ===">> \o NL
       \o join([k \in 1..Len(data.items) |-> experienciaItem(data.items[k])], NL)
       \o NL

skillsCategoria(cat) ==
    NL \o Str(cat.nombre) \o NL
       \o join([k \in 1..Len(cat.items) |-> iconOrDashLine(cat.items[k])], NL)
       \o NL

formatSkills(data) ==
    IF \/ throwsOn(data.title)
       \/ throwsOn(data.categorias)
       \/ \E k \in 1..Len(data.categorias) : throwsOn(data.categorias[k].items)
    THEN TypeError
    ELSE
    NL \o <<"=== ">> \o toUpperCase(data.title) \o <<" ===">> \o NL
       \o join([k \in 1..Len(data.categorias) |-> skillsCategoria(data.categorias[k])], NL)
       \o NL

\* Array.isArray(v) ? v : []
safeList(v) == IF isArray(v) THEN v ELSE <<>>

\* typeof v === "string" ? v : ""
safeStr(v) == IF v = undefined THEN <<>> ELSE v

\* s || "     -"
orDash(s) == IF s # <<>> THEN s ELSE <<"     -">>

renderCert(c) ==
    LET nombre == safeStr(c.nombre)
        anio == safeStr(c.anio)
        id == safeStr(c.id)
        url == safeStr(c.url)
        detalles == safeList(c.detalles)
    IN  <<"     ">> \o (IF Truthy(c.icon) THEN colorIcon(c.icon, c.color) ELSE <<"-">>)
          \o <<" ">> \o nombre
          \o (IF anio # <<>> THEN <<" (">> \o anio \o <<")">> ELSE <<>>)
          \o (IF id # <<>> THEN NL \o <<"       ID: ">> \o id ELSE <<>>)
          \o (IF url # <<>>
              THEN NL \o <<"       URL: <a href=\"">> \o url
                      \o <<"\" target=\"_blank\" rel=\"noopener noreferrer\">">> \o url \o <<"</a>">>
              ELSE <<>>)
          \o (IF Len(detalles) # 0
              THEN NL \o join([k \in 1..Len(detalles) |-> <<"       - ">> \o Str(detalles[k])], NL)
              ELSE <<>>)

objetivoLine(o) ==
    <<"     ">> \o (IF Truthy(o.icon) THEN colorIcon(o.icon, o.color) ELSE <<"-">>)
        \o <<" ">> \o safeStr(o.nombre)

formatCertificaciones(data) ==
    LET obtenidas == safeList(data.obtenidas)
        enPreparacion == safeList(data.enPreparacion)
        objetivos == safeList(data.objetivos)
    IN  NL \o <<"=== ">> \o toUpperCase(safeStr(data.title)) \o <<" ===">> \o NL
           \o NL
           \o <<"* OBTENIDAS:">> \o NL
           \o orDash(join([k \in 1..Len(obtenidas) |-> renderCert(obtenidas[k])], NL \o NL)) \o NL
           \o NL
           \o <<"* EN CURSO:">> \o NL
           \o orDash(join([k \in 1..Len(enPreparacion) |-> renderCert(enPreparacion[k])], NL \o NL)) \o NL
           \o NL
           \o <<"* OBJETIVOS:">> \o NL
           \o orDash(join([k \in 1..Len(objetivos) |-> objetivoLine(objetivos[k])], NL)) \o NL

\* v.startsWith("http://") || v.startsWith("https://"); a URL value begins with
\* its scheme as one element
startsWithHttp(v) == Len(v) > 0 /\ v[1] \in {"http://", "https://"}

\* formatContacto's local linkify
contactoLinkify(value) ==
    LET v == safeStr(value)
    IN  IF startsWithHttp(v)
        THEN <<"<a href=\"">> \o v \o <<"\" target=\"_blank\" rel=\"noopener noreferrer\">">>
                \o v \o <<"</a>">>
        ELSE v

contactoItem(i) ==
    <<"     ">> \o (IF Truthy(i.icon) THEN colorIcon(i.icon, i.color) ELSE <<"-">>)
        \o <<" ">> \o safeStr(i.label) \o <<": ">> \o contactoLinkify(i.value)

contactoDisp(d) ==
    <<"     ">> \o (IF Truthy(d.icon) THEN colorIcon(d.icon, d.color) ELSE <<"-">>)
        \o <<" ">> \o safeStr(d.text)

formatContacto(data) ==
    LET items == join([k \in 1..Len(safeList(data.items)) |-> contactoItem(safeList(data.items)[k])], NL)
        disp == join([k \in 1..Len(safeList(data.disponibilidad)) |->
                        contactoDisp(safeList(data.disponibilidad)[k])], NL)
    IN  NL \o <<"=== ">> \o toUpperCase(safeStr(data.title)) \o <<" ===">> \o NL
           \o NL
           \o orDash(items) \o NL
           \o NL
           \o (IF disp # <<>> THEN NL \o <<"* DISPONIBILIDAD:">> \o NL \o disp ELSE <<>>) \o NL

\* the module-level linkify: text.replace(urlRegex, ...); a text is a URL as a whole
\* or holds none; on a missing text the call throws
linkify(text) ==
    IF startsWithHttp(text)
    THEN <<"<a href=\"">> \o text \o <<"\" target=\"_blank\" style=\"color:#3399ff\">">>
            \o text \o <<"</a>">>
    ELSE text

\* the simpler formatCertificaciones: the rendering of one obtained certification
simpleObtenida(c) ==
    colorIcon(c.icon, c.color) \o <<" ">> \o Str(c.nombre) \o <<" (">> \o Str(c.anio) \o <<")">> \o NL
        \o <<"     - ID Credencial: ">> \o Str(c.id) \o NL
        \o <<"     - URL: ">> \o linkify(c.url) \o NL
        \o join([k \in 1..Len(c.detalles) |-> <<"     - ">> \o Str(c.detalles[k])], NL) \o NL

\* the simpler formatCertificaciones: the rendering of one certification in preparation
simpleEnPreparacion(c) ==
    colorIcon(c.icon, c.color) \o <<" ">> \o Str(c.nombre) \o NL
        \o <<"     - Progreso: ">> \o Str(c.progreso) \o NL
        \o join([k \in 1..Len(c.detalles) |-> <<"     - ">> \o Str(c.detalles[k])], NL) \o NL

\* `data.list?.length`: the list is present and not empty
hasLength(v) == isArray(v) /\ Len(v) > 0

\* the simpler formatCertificaciones
formatCertificacionesSimple(data) ==
    IF \/ throwsOn(data.title)
       \/ hasLength(data.obtenidas) /\
            \E k \in 1..Len(data.obtenidas) :
                throwsOn(data.obtenidas[k].detalles) \/ throwsOn(data.obtenidas[k].url)
       \/ hasLength(data.enPreparacion) /\
            \E k \in 1..Len(data.enPreparacion) : throwsOn(data.enPreparacion[k].detalles)
    THEN TypeError
    ELSE
    LET obtenidas ==
            IF hasLength(data.obtenidas)
            THEN join([k \in 1..Len(data.obtenidas) |-> simpleObtenida(data.obtenidas[k])], NL)
            ELSE <<>>
        enPrep ==
            IF hasLength(data.enPreparacion)
            THEN join([k \in 1..Len(data.enPreparacion) |->
                          simpleEnPreparacion(data.enPreparacion[k])], NL)
            ELSE <<>>
        objetivos ==
            IF hasLength(data.objetivos)
            THEN join([k \in 1..Len(data.objetivos) |->
                          colorIcon(data.objetivos[k].icon, data.objetivos[k].color) \o <<" ">>
                              \o Str(data.objetivos[k].nombre) \o NL], NL)
            ELSE <<>>
    IN  NL \o <<"=== ">> \o toUpperCase(data.title) \o <<" ===">> \o NL
           \o (IF obtenidas # <<>> THEN NL \o <<"* Obtenidas:">> \o NL \o obtenidas \o NL ELSE <<>>)
           \o (IF enPrep # <<>> THEN NL \o <<"* En preparacion:">> \o NL \o enPrep \o NL ELSE <<>>)
           \o (IF objetivos # <<>>
               THEN NL \o <<"* Objetivos futuros:">> \o NL \o objetivos \o NL
               ELSE <<>>)

\* the simpler formatContacto
formatContactoSimple(data) ==
    IF \/ throwsOn(data.title) \/ throwsOn(data.items)
       \/ throwsOn(data.disponibilidad) \/ throwsOn(data.idiomas)
       \/ \E k \in 1..Len(data.items) : throwsOn(data.items[k].value)
    THEN TypeError
    ELSE
    LET contactoLines ==
            join([k \in 1..Len(data.items) |->
                     (IF Truthy(data.items[k].icon)
                      THEN colorIcon(data.items[k].icon, data.items[k].color) \o <<" ">>
                      ELSE <<"- ">>)
                         \o Str(data.items[k].label) \o <<": ">> \o linkify(data.items[k].value)], NL)
        disponibilidad ==
            join([k \in 1..Len(data.disponibilidad) |-> iconLine(data.disponibilidad[k])], NL)
        idiomas ==
            join([k \in 1..Len(data.idiomas) |-> iconLine(data.idiomas[k])], NL)
    IN  NL \o <<"=== ">> \o toUpperCase(data.title) \o <<" ===">> \o NL
           \o contactoLines \o NL
           \o NL
           \o <<"=== DISPONIBILIDAD ===">> \o NL
           \o disponibilidad \o NL
           \o NL
           \o <<"=== IDIOMAS ===">> \o NL
           \o idiomas \o NL

\* mutant of textToHtml: replace without the g flag, only the first line break
textToHtmlFirstOnly(text) ==
    IF \E k \in 1..Len(text) : text[k] = "\n"
    THEN LET first == CHOOSE k \in 1..Len(text) :
                          text[k] = "\n" /\ \A m \in 1..(k - 1) : text[m] # "\n"
         IN  SubSeq(text, 1, first - 1) \o <<"<", "b", "r", ">">> \o SubSeq(text, first + 1, Len(text))
    ELSE text

\* text.replace(/\n/g, "<br>")
textToHtml(text) ==
    Flatten([k \in 1..Len(text) |-> IF text[k] = "\n" THEN <<"<", "b", "r", ">">> ELSE <<text[k]>>])

----------------------------------------------------------------------------
(* Content records (data/*.json): small records of the shapes the          *)
(* formatters read.                                                        *)

whoami == [name |-> <<"Robert">>, role |-> <<"Pentester">>, text |-> <<"Analista">>]

perfil ==
    [title |-> <<"P","e","r","f","i","l">>,
     description |-> <<"Red Team">>,
     specialization |-> << [icon |-> <<"[+]">>, color |-> <<"green">>, text |-> <<"Pentesting">>] >>,
     goals |-> << [icon |-> <<"[>]">>, color |-> <<"red">>, text |-> <<"OSCP">>] >>]

estudios ==
    [title |-> <<"E","s","t","u","d","i","o","s">>,
     items |-> << [id |-> <<"[1]">>, titulo |-> <<"ASIR">>, inicio |-> <<"2020">>,
                   fin |-> <<"2022">>, centro |-> <<"IES">>, ubicacion |-> <<"Valencia">>,
                   temas |-> << [icon |-> <<"[+]">>, color |-> <<"blue">>, text |-> <<"Redes">>],
                                [icon |-> undefined, color |-> undefined, text |-> <<"Linux">>] >>] >>]

experiencia ==
    [title |-> <<"E","x","p">>,
     items |-> << [id |-> <<"[1]">>, puesto |-> <<"Analista">>, inicio |-> <<"2022">>,
                   fin |-> <<"2024">>, empresa |-> <<"SOC">>, ubicacion |-> <<"Remoto">>,
                   responsabilidades |->
                       << [icon |-> undefined, color |-> undefined, text |-> <<"Monitorizar">>] >>,
                   logros |-> << [icon |-> <<"[*]">>, color |-> <<"yellow">>, text |-> <<"Premio">>] >>,
                   stackGroups |->
                       << [icon |-> <<"[#]">>, color |-> <<"orange">>, title |-> <<"SIEM">>,
                           items |-> << <<"Splunk">>, <<"Wazuh">> >>] >>] >>]

skills ==
    [title |-> <<"S","k","i","l","l","s">>,
     categorias |-> << [nombre |-> <<"Security">>,
                        items |-> << [icon |-> undefined, color |-> undefined, text |-> <<"nmap">>] >>] >>]

certificaciones ==
    [title |-> <<"C","e","r","t","s">>,
     obtenidas |-> << [icon |-> <<"[+]">>, color |-> <<"green">>, nombre |-> <<"eJPT">>,
                       anio |-> <<"2023">>, id |-> <<"123">>, url |-> <<"https://", "ine.com">>,
                       detalles |-> << <<"Pentesting">> >>] >>,
     enPreparacion |-> <<>>,
     objetivos |-> << [icon |-> undefined, color |-> undefined, nombre |-> <<"OSCP">>] >>]

contacto ==
    [title |-> <<"C","o","n","t","a","c","t","o">>,
     items |-> << [icon |-> <<"[@]">>, color |-> <<"white">>, label |-> <<"GitHub">>,
                   value |-> <<"https://", "github.com">>] >>,
     disponibilidad |-> <<>>]

\* ascii.json
ascii ==
    [bannerMobile |-> <<"bannerMobile">>,
     bannerTablet |-> <<"bannerTablet">>,
     bannerDesktop |-> <<"bannerDesktop">>]

----------------------------------------------------------------------------
(* Command vocabulary: the case labels of runCommand's switch *)

CmdWhoami == <<"w","h","o","a","m","i">>

CmdProfile == <<"c","a","t"," ","p","r","o","f","i","l","e",".","t","x","t">>

CmdEdu == <<"c","a","t"," ","e","d","u",".","t","x","t">>

CmdExp == <<"c","a","t"," ","e","x","p",".","t","x","t">>

CmdSkills == <<"c","a","t"," ","s","k","i","l","l","s",".","t","x","t">>

CmdCerts == <<"c","a","t"," ","c","e","r","t","s",".","t","x","t">>

CmdContact == <<"c","a","t"," ","c","o","n","t","a","c","t",".","t","x","t">>

CmdAllInfo == <<"w","h","o","a","m","i"," ","&","&"," ","c","a","t"," ","*",".","t","x","t">>

Vocabulary ==
    {CmdWhoami, CmdProfile, CmdEdu, CmdExp, CmdSkills, CmdCerts, CmdContact, CmdAllInfo}

\* the literal text of `Comando no encontrado: ${cmd}`
NotFoundPrefix == <<"C","o","m","a","n","d","o"," ","n","o"," ","e","n","c","o","n","t","r","a","d","o",":"," ">>

\* mutant of generateAllInfo: education and experience change places and the last
\* separator is left out
generateAllInfoReordered ==
    NL \o formatWhoami(whoami) \o NL
       \o sectionSeparator \o NL
       \o NL
       \o formatPerfil(perfil) \o NL
       \o sectionSeparator \o NL
       \o NL
       \o formatExperiencia(experiencia) \o NL
       \o sectionSeparator \o NL
       \o NL
       \o formatEstudios(estudios) \o NL
       \o sectionSeparator \o NL
       \o NL
       \o formatSkills(skills) \o NL
       \o sectionSeparator \o NL
       \o NL
       \o formatCertificaciones(certificaciones) \o NL
       \o NL
       \o formatContacto(contacto) \o NL

\* generateAllInfo(): the template of the composite command
generateAllInfo ==
    NL \o formatWhoami(whoami) \o NL
       \o sectionSeparator \o NL
       \o NL
       \o formatPerfil(perfil) \o NL
       \o sectionSeparator \o NL
       \o NL
       \o formatEstudios(estudios) \o NL
       \o sectionSeparator \o NL
       \o NL
       \o formatExperiencia(experiencia) \o NL
       \o sectionSeparator \o NL
       \o NL
       \o formatSkills(skills) \o NL
       \o sectionSeparator \o NL
       \o NL
       \o formatCertificaciones(certificaciones) \o NL
       \o sectionSeparator \o NL
       \o NL
       \o formatContacto(contacto) \o NL

\* mutant of commandResult: the comparison ignores case
commandResultIgnoringCase(cmd) ==
    LET up == toUpperCase(cmd)
    IN  CASE up = toUpperCase(CmdWhoami)  -> formatWhoami(whoami)
          [] up = toUpperCase(CmdProfile) -> formatPerfil(perfil)
          [] up = toUpperCase(CmdEdu)     -> formatEstudios(estudios)
          [] up = toUpperCase(CmdExp)     -> formatExperiencia(experiencia)
          [] up = toUpperCase(CmdSkills)  -> formatSkills(skills)
          [] up = toUpperCase(CmdCerts)   -> formatCertificaciones(certificaciones)
          [] up = toUpperCase(CmdContact) -> formatContacto(contacto)
          [] up = toUpperCase(CmdAllInfo) -> generateAllInfo
          [] OTHER -> Flatten([k \in 1..Len(NotFoundPrefix \o cmd) |->
                                 IF (NotFoundPrefix \o cmd)[k] = "\n"
                                 THEN <<"<", "b", "r", ">">>
                                 ELSE <<(NotFoundPrefix \o cmd)[k]>>])

\* the text runCommand's switch prints for cmd
commandResult(cmd) ==
    CASE cmd = CmdWhoami  -> formatWhoami(whoami)
      [] cmd = CmdProfile -> formatPerfil(perfil)
      [] cmd = CmdEdu     -> formatEstudios(estudios)
      [] cmd = CmdExp     -> formatExperiencia(experiencia)
      [] cmd = CmdSkills  -> formatSkills(skills)
      [] cmd = CmdCerts   -> formatCertificaciones(certificaciones)
      [] cmd = CmdContact -> formatContacto(contacto)
      [] cmd = CmdAllInfo -> generateAllInfo
      [] OTHER            -> textToHtml(NotFoundPrefix \o cmd)

----------------------------------------------------------------------------
(* Inputs *)

\* characters of the generated command strings
Alphabet == {"w", "<", "&", "\n"}

\* every string over Alphabet of length at most n
ShortStrings(n) == UNION {[1..m -> Alphabet] : m \in 0..n}

\* case variants, proper prefixes and padded forms of the vocabulary
Variants ==
    UNION {{toUpperCase(v), v \o <<" ">>, <<" ">> \o v} \cup {slice0(v, n) : n \in 0..(Len(v) - 1)}
           : v \in Vocabulary}

\* the command strings of the serialized specification
Commands == Vocabulary \cup Variants \cup ShortStrings(MaxLen)

\* the command strings of overlapping invocations
Inputs == {<<>>, <<"w">>, <<"w", "h">>, <<"<", "\n">>, CmdWhoami}

\* window.innerWidth at construction
Widths == {320, 639, 640, 1023, 1024, 1920}

----------------------------------------------------------------------------
(* useTerminal: state updaters *)

promptStart == "<div class=\"font-mono text-sm leading-tight\">...<span class=\"ml-2 text-[var(--white-soft)]\">"

promptEnd == "</span></div></div>"

\* { type: "html", content: promptStart + typed + promptEnd }
PromptEntry(typed) == [type |-> "html", content |-> <<promptStart>> \o typed \o <<promptEnd>>]

\* mutant of initialBanner: the mobile banner is chosen up to and including 640
initialBannerInclusive(width) ==
    IF width <= 640 THEN ascii.bannerMobile
    ELSE IF width < 1024 THEN ascii.bannerTablet
    ELSE ascii.bannerDesktop

initialBanner(width) ==
    IF width < 640 THEN ascii.bannerMobile
    ELSE IF width < 1024 THEN ascii.bannerTablet
    ELSE ascii.bannerDesktop

\* mutant of clear: the history is kept
clearKeepsHistory(prev) == prev

\* clear(): setOutput([])
clear(prev) == <<>>

\* mutant of print: the entry is put in front of the history
printPrepends(prev, text, type) == <<[type |-> type, content |-> text]>> \o prev

\* print(text, type): setOutput(prev => [...prev, { type, content: text }])
print(prev, text, type) == Append(prev, [type |-> type, content |-> text])

\* typeCommand: setOutput(prev => [...prev, { type: "html", content: promptStart + promptEnd }])
insertPrompt(prev) == Append(prev, PromptEntry(<<>>))

\* mutant of replaceLast: each tick appends a new prompt entry
replaceLastAppends(prev, typed) == Append(prev, PromptEntry(typed))

\* typeCommand: updated = [...prev]; updated[updated.length - 1] = {...}.  On an empty
\* array the assignment sets the property "-1", which is no element: the length stays 0
\* and the next spread copy drops it.
replaceLast(prev, typed) ==
    IF Len(prev) = 0 THEN prev ELSE [prev EXCEPT ![Len(prev)] = PromptEntry(typed)]

----------------------------------------------------------------------------
(* useTerminal: runCommand and typeCommand *)

\* no continuation of `await typeCommand(cmd)` is waiting to run
NoMicrotask == \A c \in calls : c.pc # "typed"

CallOf(id) == CHOOSE c \in calls : c.id = id

\* runCommand(cmd) up to the first await: setHasInteracted(true), clear(), and
\* typeCommand up to its first setTimeout (or to its end when cmd is empty)
runCommand(cmd) ==
    /\ mounted
    /\ NoMicrotask
    /\ runs < MaxRuns
    /\ runs' = runs + 1
    /\ hasInteracted' = TRUE
    /\ LET cleared == clear(output)
           prompted == insertPrompt(cleared)
       IN  IF Len(cmd) > 0
           THEN /\ output' = replaceLast(prompted, slice0(cmd, 1))
                /\ isTyping' = TRUE
                /\ isTypingCommand' = TRUE
                /\ calls' = calls \cup {[id |-> runs + 1, cmd |-> cmd, i |-> 0, pc |-> "typing"]}
                /\ timerQueue' = Append(timerQueue, runs + 1)
           ELSE /\ output' = prompted
                /\ isTyping' = FALSE
                /\ isTypingCommand' = FALSE
                /\ calls' = calls \cup {[id |-> runs + 1, cmd |-> cmd, i |-> 0, pc |-> "typed"]}
                /\ timerQueue' = timerQueue

\* runCommand called through the hook's public API
RunCommand(cmd) ==
    /\ runCommand(cmd)
    /\ UNCHANGED <<mounted, stage, menuOpen, panelMounted, userText, passText, loginI, loginJ,
                   loginTimers, onLoginCalls>>
    /\ UNCHANGED <<fmtVars, lastRun, innerWidth>>

\* mutant of TypeTick: inside the loop no further timer is scheduled
TypeTickLosesTimer ==
    /\ timerQueue # <<>>
    /\ NoMicrotask
    /\ LET c == CallOf(Head(timerQueue))
           i == c.i + 1
       IN  IF i < Len(c.cmd)
           THEN /\ output' = replaceLast(output, slice0(c.cmd, i + 1))
                /\ calls' = (calls \ {c}) \cup {[c EXCEPT !.i = i]}
                /\ timerQueue' = Tail(timerQueue)
                /\ UNCHANGED <<isTyping, isTypingCommand>>
           ELSE /\ isTyping' = FALSE
                /\ isTypingCommand' = FALSE
                /\ calls' = (calls \ {c}) \cup {[c EXCEPT !.i = i, !.pc = "typed"]}
                /\ timerQueue' = Tail(timerQueue)
                /\ UNCHANGED output
    /\ UNCHANGED <<hasInteracted, runs, mounted, stage, menuOpen, panelMounted, userText,
                   passText, loginI, loginJ, loginTimers, onLoginCalls>>
    /\ UNCHANGED <<fmtVars, lastRun, innerWidth>>

\* the oldest setTimeout(res, 40) fires: typeCommand resumes after its await, runs the
\* next iteration of the loop up to the next await, or leaves the loop and returns
TypeTick ==
    /\ timerQueue # <<>>
    /\ NoMicrotask
    /\ LET c == CallOf(Head(timerQueue))
           i == c.i + 1
       IN  IF i < Len(c.cmd)
           THEN /\ output' = replaceLast(output, slice0(c.cmd, i + 1))
                /\ calls' = (calls \ {c}) \cup {[c EXCEPT !.i = i]}
                /\ timerQueue' = Append(Tail(timerQueue), c.id)
                /\ UNCHANGED <<isTyping, isTypingCommand>>
           ELSE /\ isTyping' = FALSE
                /\ isTypingCommand' = FALSE
                /\ calls' = (calls \ {c}) \cup {[c EXCEPT !.i = i, !.pc = "typed"]}
                /\ timerQueue' = Tail(timerQueue)
                /\ UNCHANGED output
    /\ UNCHANGED <<hasInteracted, runs, mounted, stage, menuOpen, panelMounted, userText,
                   passText, loginI, loginJ, loginTimers, onLoginCalls>>
    /\ UNCHANGED <<fmtVars, lastRun, innerWidth>>

\* no execution has completed yet
noRun == [cmd |-> <<"#none">>, history |-> <<>>, times |-> 0]

\* runCommand after `await typeCommand(cmd)`: the switch and its print, for call c
PrintResultOf(c) ==
    /\ c.pc = "typed"
    /\ output' = print(output, commandResult(c.cmd), "html")
    /\ calls' = calls \ {c}
    /\ UNCHANGED <<isTyping, isTypingCommand, hasInteracted, timerQueue, runs, mounted, stage,
                   menuOpen, panelMounted, userText, passText, loginI, loginJ, loginTimers,
                   onLoginCalls>>
    /\ UNCHANGED <<fmtVars, innerWidth>>

PrintResult == \E c \in calls : PrintResultOf(c) /\ UNCHANGED lastRun

\* the same step, observed: lastRun records the command that completed, the history
\* it ended with, and how many executions of that command completed in a row
RecordedPrintResult ==
    \E c \in calls :
        /\ PrintResultOf(c)
        /\ lastRun' = [cmd |-> c.cmd, history |-> output',
                       times |-> IF lastRun.cmd = c.cmd THEN lastRun.times + 1 ELSE 1]

\* mutant of Clear: clear() resets the interaction flag as well
ClearResetsInteraction ==
    /\ mounted
    /\ NoMicrotask
    /\ output' = <<>>
    /\ hasInteracted' = FALSE
    /\ UNCHANGED <<isTyping, isTypingCommand, calls, timerQueue, runs, mounted,
                   stage, menuOpen, panelMounted, userText, passText, loginI, loginJ,
                   loginTimers, onLoginCalls>>
    /\ UNCHANGED <<fmtVars, lastRun, innerWidth>>

\* clear() called through the hook's public API
Clear ==
    /\ mounted
    /\ NoMicrotask
    /\ output' = clear(output)
    /\ UNCHANGED <<isTyping, isTypingCommand, hasInteracted, calls, timerQueue, runs, mounted,
                   stage, menuOpen, panelMounted, userText, passText, loginI, loginJ,
                   loginTimers, onLoginCalls>>
    /\ UNCHANGED <<fmtVars, lastRun, innerWidth>>

----------------------------------------------------------------------------
(* TerminalBody: what is rendered from the hook's state *)

\* mutant of welcomeMessage: the message is chosen whenever the history is empty
welcomeMessageOnEmpty ==
    IF ~hasInteracted \/ output = <<>> THEN <<"message">> ELSE undefined

\* const welcomeMessage = !terminal.hasInteracted ? ascii.message... : undefined
welcomeMessage == IF ~hasInteracted THEN <<"message">> ELSE undefined

\* the final prompt is rendered: {!terminal.isTypingCommand && <TerminalPrompt .../>}
finalPromptShown == ~isTypingCommand

\* TerminalPrompt inside the final prompt: {welcomeMessage && <span>...</span>}
welcomeShown == finalPromptShown /\ Truthy(welcomeMessage)

----------------------------------------------------------------------------
(* LoginPanel and App *)

user == <<"k","a","l","i">>

pass == <<"*","*","*","*","*","*","*","*","*","*","*","*","*","*">>

\* the effect's cleanup: clearTimeout(timeout), clearInterval(userInterval),
\* clearInterval(passInterval)
loginCleanup(timers) == timers \ {"timeout", "userInterval", "passInterval"}

\* App's onLogin = () => setStage("terminal"), with `timers` the timers pending when it
\* runs: LoginPanel is rendered only in stage "login", so it unmounts and its effect's
\* cleanup runs
onLogin(timers) ==
    /\ onLoginCalls' = onLoginCalls + 1
    /\ stage' = "terminal"
    /\ panelMounted' = FALSE
    /\ loginTimers' = IF panelMounted THEN loginCleanup(timers) ELSE timers

\* setTimeout(..., 500) fires: let i = 0; userInterval = setInterval(..., 80)
LoginTimeout ==
    /\ "timeout" \in loginTimers
    /\ loginI' = 0
    /\ loginTimers' = (loginTimers \ {"timeout"}) \cup {"userInterval"}
    /\ UNCHANGED <<output, isTyping, isTypingCommand, hasInteracted, calls, timerQueue, runs,
                   mounted, stage, menuOpen, panelMounted, userText, passText, loginJ,
                   onLoginCalls>>
    /\ UNCHANGED <<fmtVars, lastRun, innerWidth>>

\* mutant of UserTick: the interval is cleared one tick early, when the last character
\* of the username is shown
UserTickStopsEarly ==
    /\ "userInterval" \in loginTimers
    /\ userText' = slice0(user, loginI + 1)
    /\ loginI' = loginI + 1
    /\ IF loginI + 1 >= Len(user)
       THEN /\ loginJ' = 0
            /\ loginTimers' = (loginTimers \ {"userInterval"}) \cup {"passInterval"}
       ELSE UNCHANGED <<loginJ, loginTimers>>
    /\ UNCHANGED <<output, isTyping, isTypingCommand, hasInteracted, calls, timerQueue, runs,
                   mounted, stage, menuOpen, panelMounted, passText, onLoginCalls>>
    /\ UNCHANGED <<fmtVars, lastRun, innerWidth>>

\* a tick of userInterval
UserTick ==
    /\ "userInterval" \in loginTimers
    /\ userText' = slice0(user, loginI)
    /\ loginI' = loginI + 1
    /\ IF loginI + 1 > Len(user)
       THEN /\ loginJ' = 0
            /\ loginTimers' = (loginTimers \ {"userInterval"}) \cup {"passInterval"}
       ELSE UNCHANGED <<loginJ, loginTimers>>
    /\ UNCHANGED <<output, isTyping, isTypingCommand, hasInteracted, calls, timerQueue, runs,
                   mounted, stage, menuOpen, panelMounted, passText, onLoginCalls>>
    /\ UNCHANGED <<fmtVars, lastRun, innerWidth>>

\* mutant of PassTick: the final pause is scheduled at the first tick of passInterval
PassTickEarlyLogin ==
    /\ "passInterval" \in loginTimers
    /\ passText' = slice0(pass, loginJ)
    /\ loginJ' = loginJ + 1
    /\ loginTimers' = (loginTimers \ {"passInterval"}) \cup {"finalTimeout"}
    /\ UNCHANGED <<output, isTyping, isTypingCommand, hasInteracted, calls, timerQueue, runs,
                   mounted, stage, menuOpen, panelMounted, userText, loginI, onLoginCalls>>
    /\ UNCHANGED <<fmtVars, lastRun, innerWidth>>

\* a tick of passInterval
PassTick ==
    /\ "passInterval" \in loginTimers
    /\ passText' = slice0(pass, loginJ)
    /\ loginJ' = loginJ + 1
    /\ IF loginJ + 1 > Len(pass)
       THEN loginTimers' = (loginTimers \ {"passInterval"}) \cup {"finalTimeout"}
       ELSE UNCHANGED loginTimers
    /\ UNCHANGED <<output, isTyping, isTypingCommand, hasInteracted, calls, timerQueue, runs,
                   mounted, stage, menuOpen, panelMounted, userText, loginI, onLoginCalls>>
    /\ UNCHANGED <<fmtVars, lastRun, innerWidth>>

\* setTimeout(() => onLogin(), 400) fires
FinalTimeout ==
    /\ "finalTimeout" \in loginTimers
    /\ onLogin(loginTimers \ {"finalTimeout"})
    /\ UNCHANGED <<output, isTyping, isTypingCommand, hasInteracted, calls, timerQueue, runs,
                   mounted, menuOpen, userText, passText, loginI, loginJ>>
    /\ UNCHANGED <<fmtVars, lastRun, innerWidth>>

\* the [INICIAR SESION] button: onClick={onLogin}
ClickLogin ==
    /\ mounted
    /\ panelMounted
    /\ onLogin(loginTimers)
    /\ UNCHANGED <<output, isTyping, isTypingCommand, hasInteracted, calls, timerQueue, runs,
                   mounted, menuOpen, userText, passText, loginI, loginJ>>
    /\ UNCHANGED <<fmtVars, lastRun, innerWidth>>

\* mutant of MenuToggle: the hamburger button is available in every stage
MenuToggleAnyStage ==
    /\ mounted
    /\ menuOpen' = TRUE
    /\ UNCHANGED <<output, isTyping, isTypingCommand, hasInteracted, calls, timerQueue, runs,
                   mounted, stage, panelMounted, userText, passText, loginI, loginJ,
                   loginTimers, onLoginCalls>>
    /\ UNCHANGED <<fmtVars, lastRun, innerWidth>>

\* PageHeader's hamburger button: onMenuToggle = () => setMenuOpen(true); the header is
\* rendered only in stage "terminal"
MenuToggle ==
    /\ mounted
    /\ stage = "terminal"
    /\ menuOpen' = TRUE
    /\ UNCHANGED <<output, isTyping, isTypingCommand, hasInteracted, calls, timerQueue, runs,
                   mounted, stage, panelMounted, userText, passText, loginI, loginJ,
                   loginTimers, onLoginCalls>>
    /\ UNCHANGED <<fmtVars, lastRun, innerWidth>>

\* SideMenu's overlay: onClick={onClose}; it takes clicks only while the menu is open
MenuClose ==
    /\ mounted
    /\ menuOpen
    /\ menuOpen' = FALSE
    /\ UNCHANGED <<output, isTyping, isTypingCommand, hasInteracted, calls, timerQueue, runs,
                   mounted, stage, panelMounted, userText, passText, loginI, loginJ,
                   loginTimers, onLoginCalls>>
    /\ UNCHANGED <<fmtVars, lastRun, innerWidth>>

\* the command strings of PageHeader's eight nav buttons
HeaderCommands ==
    { <<"w","h","o","a","m","i">>,
      <<"c","a","t"," ","p","r","o","f","i","l","e",".","t","x","t">>,
      <<"c","a","t"," ","e","d","u",".","t","x","t">>,
      <<"c","a","t"," ","e","x","p",".","t","x","t">>,
      <<"c","a","t"," ","s","k","i","l","l","s",".","t","x","t">>,
      <<"c","a","t"," ","c","e","r","t","s",".","t","x","t">>,
      <<"c","a","t"," ","c","o","n","t","a","c","t",".","t","x","t">>,
      <<"w","h","o","a","m","i"," ","&","&"," ","c","a","t"," ","*",".","t","x","t">> }

\* mutant of SideMenuCommands: the CERTIFICACIONES button passes the file name without
\* its extension
SideMenuCommandsTypo ==
    { <<"w","h","o","a","m","i">>,
      <<"c","a","t"," ","p","r","o","f","i","l","e",".","t","x","t">>,
      <<"c","a","t"," ","e","d","u",".","t","x","t">>,
      <<"c","a","t"," ","e","x","p",".","t","x","t">>,
      <<"c","a","t"," ","s","k","i","l","l","s",".","t","x","t">>,
      <<"c","a","t"," ","c","e","r","t","s">>,
      <<"c","a","t"," ","c","o","n","t","a","c","t",".","t","x","t">>,
      <<"w","h","o","a","m","i"," ","&","&"," ","c","a","t"," ","*",".","t","x","t">> }

\* the command strings of SideMenu's eight navigation buttons
SideMenuCommands ==
    { <<"w","h","o","a","m","i">>,
      <<"c","a","t"," ","p","r","o","f","i","l","e",".","t","x","t">>,
      <<"c","a","t"," ","e","d","u",".","t","x","t">>,
      <<"c","a","t"," ","e","x","p",".","t","x","t">>,
      <<"c","a","t"," ","s","k","i","l","l","s",".","t","x","t">>,
      <<"c","a","t"," ","c","e","r","t","s",".","t","x","t">>,
      <<"c","a","t"," ","c","o","n","t","a","c","t",".","t","x","t">>,
      <<"w","h","o","a","m","i"," ","&","&"," ","c","a","t"," ","*",".","t","x","t">> }

\* Tailwind's lg breakpoint: PageHeader's nav is `hidden lg:flex`, SideMenu's
\* navigation is `lg:hidden`
LargeViewport == innerWidth >= 1024

\* a nav button of PageHeader: onClick={() => runCommand(cmd)}; the header is rendered
\* only in stage "terminal"
HeaderCommand(cmd) ==
    /\ stage = "terminal"
    /\ LargeViewport
    /\ RunCommand(cmd)

\* mutant of MenuCommand: the button runs the command and leaves the menu as it is
MenuCommandKeepsMenu(cmd) ==
    /\ ~LargeViewport
    /\ RunCommand(cmd)

\* a navigation button of SideMenu: onClose(); runCommand(cmd), where App passes
\* runCommand = (cmd) => { setMenuOpen(false); return terminal.runCommand(cmd); }.
\* SideMenu is rendered in both stages; closed, it is moved off-screen by a transform,
\* which leaves its buttons in the document, focusable and activatable
MenuCommand(cmd) ==
    /\ ~LargeViewport
    /\ runCommand(cmd)
    /\ menuOpen' = FALSE
    /\ UNCHANGED <<mounted, stage, panelMounted, userText, passText, loginI, loginJ,
                   loginTimers, onLoginCalls>>
    /\ UNCHANGED <<fmtVars, lastRun, innerWidth>>

\* App is unmounted.  LoginPanel's effect has a cleanup; useTerminal registers none, so
\* the timers of typeCommand stay scheduled.
Unmount ==
    /\ mounted
    /\ NoMicrotask
    /\ mounted' = FALSE
    /\ panelMounted' = FALSE
    /\ loginTimers' = IF panelMounted THEN loginCleanup(loginTimers) ELSE loginTimers
    /\ UNCHANGED <<output, isTyping, isTypingCommand, hasInteracted, calls, timerQueue, runs,
                   stage, menuOpen, userText, passText, loginI, loginJ, onLoginCalls>>
    /\ UNCHANGED <<fmtVars, lastRun, innerWidth>>

----------------------------------------------------------------------------
(* Specifications *)

\* the state after App, useTerminal and LoginPanel are constructed
AppInit ==
    /\ innerWidth \in Widths
    /\ output = <<[type |-> "raw", content |-> initialBanner(innerWidth)]>>
    /\ isTyping = FALSE
    /\ isTypingCommand = FALSE
    /\ hasInteracted = FALSE
    /\ calls = {}
    /\ timerQueue = <<>>
    /\ runs = 0
    /\ mounted = TRUE
    /\ stage = "login"
    /\ menuOpen = FALSE
    /\ panelMounted = TRUE
    /\ userText = <<>>
    /\ passText = <<>>
    /\ loginI = 0
    /\ loginJ = 0
    /\ loginTimers = {"timeout"}
    /\ onLoginCalls = 0

\* nothing formatted
notRendered == <<"#notRendered">>

Init ==
    /\ AppInit
    /\ section = "none"
    /\ record = <<>>
    /\ rendered = notRendered
    /\ lastRun = noRun

\* the hook as its public contract offers it: runCommand at any moment, clear, teardown
Next ==
    \/ \E cmd \in Inputs : RunCommand(cmd)
    \/ TypeTick
    \/ PrintResult
    \/ Clear
    \/ Unmount

Spec == Init /\ [][Next]_vars

\* the same on a desktop viewport, with the event loop's guarantees: a timer that is
\* due fires, and the continuation of an await that has resolved runs
DesktopInit == Init /\ innerWidth = 1920

FairSpec ==
    /\ DesktopInit
    /\ [][Next]_vars
    /\ WF_vars(TypeTick) /\ WF_vars(PrintResult)

\* runCommand invoked only when the previous invocation has completed
SerialRunCommand(cmd) == calls = {} /\ RunCommand(cmd)

SerialNext ==
    \/ \E cmd \in Commands : SerialRunCommand(cmd)
    \/ TypeTick
    \/ PrintResult

SerialSpec == Init /\ [][SerialNext]_vars

\* LoginPanel inside App
LoginNext ==
    \/ LoginTimeout
    \/ UserTick
    \/ PassTick
    \/ FinalTimeout
    \/ ClickLogin
    \/ MenuToggle
    \/ MenuClose
    \/ Unmount

LoginSpec == Init /\ [][LoginNext]_vars

\* the login simulation left to itself: no click, no key, the page stays open.  The
\* browser fires every timer that is due, hence the weak fairness of the four timer
\* callbacks
AutoLoginNext ==
    \/ LoginTimeout
    \/ UserTick
    \/ PassTick
    \/ FinalTimeout

AutoLoginSpec ==
    /\ Init
    /\ [][AutoLoginNext]_vars
    /\ WF_vars(LoginTimeout)
    /\ WF_vars(UserTick)
    /\ WF_vars(PassTick)
    /\ WF_vars(FinalTimeout)

\* the running application: the login simulation, the login button, the menu and the
\* sixteen command buttons, a command button being pressed when no command is in
\* progress (overlapping invocations are the subject of Spec)
AppNext ==
    \/ LoginTimeout
    \/ UserTick
    \/ PassTick
    \/ FinalTimeout
    \/ ClickLogin
    \/ MenuToggle
    \/ MenuClose
    \/ \E cmd \in HeaderCommands : calls = {} /\ HeaderCommand(cmd)
    \/ \E cmd \in SideMenuCommands : calls = {} /\ MenuCommand(cmd)
    \/ TypeTick
    \/ PrintResult

AppSpec == Init /\ [][AppNext]_vars

\* the commands of repeated executions
RepeatCommands == Vocabulary \cup {<<>>, <<"w">>, toUpperCase(CmdWhoami)}

\* serialized executions, each completed execution recorded in lastRun
RepeatNext ==
    \/ \E cmd \in RepeatCommands : SerialRunCommand(cmd)
    \/ TypeTick
    \/ RecordedPrintResult

RepeatSpec == Init /\ [][RepeatNext]_vars

----------------------------------------------------------------------------
(* The formatters applied to content records of any shape (data: any)      *)

\* an optional string field: missing or present
OptStrings == {undefined, <<"x">>}

\* the title field: missing or present
Titles == {undefined, <<"T", "i", "t", "l", "e">>}

\* the icon field of an item: missing or present
Icons == {undefined, <<"[+]">>}

\* the color field of an item: missing, a known key, an unknown key, a key that names
\* an inherited property
ColorKeys == {undefined, <<"green">>, <<"purple">>, <<"constructor">>}

\* a list field: missing, empty, or holding one item
ListKinds == {"missing", "empty", "one"}

listOf(kind, item) ==
    CASE kind = "missing" -> undefined
      [] kind = "empty"   -> <<>>
      [] OTHER            -> <<item>>

\* { icon, color, text }
itemOf(icon, color) == [icon |-> icon, color |-> color, text |-> <<"nmap">>]

whoamiRecords == [name : OptStrings, role : OptStrings, text : OptStrings]

perfilRecord(title, icon, color, k1, k2) ==
    [title |-> title, description |-> <<"d">>,
     specialization |-> listOf(k1, itemOf(icon, color)),
     goals |-> listOf(k2, itemOf(icon, color))]

estudiosRecord(title, icon, color, k1, k2) ==
    [title |-> title,
     items |-> listOf(k1, [id |-> <<"[1]">>, titulo |-> <<"ASIR">>, inicio |-> <<"2020">>,
                           fin |-> <<"2022">>, centro |-> <<"IES">>, ubicacion |-> <<"V">>,
                           temas |-> listOf(k2, itemOf(icon, color))])]

experienciaRecord(title, icon, color, k1, k2, k3, k4, k5) ==
    [title |-> title,
     items |-> listOf(k1, [id |-> <<"[1]">>, puesto |-> <<"SOC">>, inicio |-> <<"2022">>,
                           fin |-> <<"2024">>, empresa |-> <<"E">>, ubicacion |-> <<"V">>,
                           responsabilidades |-> listOf(k2, itemOf(icon, color)),
                           logros |-> listOf(k3, itemOf(icon, color)),
                           stackGroups |->
                               listOf(k4, [icon |-> icon, color |-> color, title |-> <<"nmap">>,
                                           items |-> listOf(k5, <<"Splunk">>)])])]

skillsRecord(title, icon, color, k1, k2) ==
    [title |-> title,
     categorias |-> listOf(k1, [nombre |-> <<"Security">>,
                                items |-> listOf(k2, itemOf(icon, color))])]

\* a certification with every optional field (full) or with none
certOf(icon, color, full) ==
    [icon |-> icon, color |-> color, nombre |-> <<"nmap">>,
     anio |-> IF full THEN <<"2023">> ELSE undefined,
     id |-> IF full THEN <<"123">> ELSE undefined,
     url |-> IF full THEN <<"https://", "ine.com">> ELSE undefined,
     detalles |-> IF full THEN << <<"Pentesting">> >> ELSE undefined,
     progreso |-> IF full THEN <<"60%">> ELSE undefined]

certificacionesRecord(title, icon, color, full, k1, k2, k3) ==
    [title |-> title,
     obtenidas |-> listOf(k1, certOf(icon, color, full)),
     enPreparacion |-> listOf(k2, certOf(icon, color, full)),
     objetivos |-> listOf(k3, [icon |-> icon, color |-> color, nombre |-> <<"nmap">>])]

contactoRecord(title, icon, color, k1, k2) ==
    [title |-> title,
     items |-> listOf(k1, [icon |-> icon, color |-> color, label |-> <<"nmap">>,
                           value |-> <<"https://", "github.com">>]),
     disponibilidad |-> listOf(k2, itemOf(icon, color)),
     idiomas |-> listOf(k2, [icon |-> icon, color |-> color, text |-> <<"Ingles">>])]

\* a formatter and the record it is about to be applied to
FormatInit ==
    /\ AppInit
    /\ lastRun = noRun
    /\ rendered = notRendered
    /\ \/ section = "whoami" /\ record \in whoamiRecords
       \/ section = "colorIcon" /\ record \in [icon : Icons, color : ColorKeys]
       \/ \E title \in Titles, icon \in Icons, color \in ColorKeys, k1, k2 \in ListKinds :
             \/ section = "perfil" /\ record = perfilRecord(title, icon, color, k1, k2)
             \/ section = "estudios" /\ record = estudiosRecord(title, icon, color, k1, k2)
             \/ section = "skills" /\ record = skillsRecord(title, icon, color, k1, k2)
             \/ section = "contacto" /\ record = contactoRecord(title, icon, color, k1, k2)
       \/ \E title \in Titles, icon \in Icons, full \in BOOLEAN, k1, k2, k3 \in ListKinds :
             /\ section = "certificaciones"
             /\ record = certificacionesRecord(title, icon, <<"green">>, full, k1, k2, k3)
       \/ \E title \in Titles, icon \in Icons, k1, k2, k3, k4, k5 \in ListKinds :
             /\ section = "experiencia"
             /\ record = experienciaRecord(title, icon, <<"green">>, k1, k2, k3, k4, k5)

\* the formatter named by `name` is applied to the record and returns (or throws)
Apply(name, result) ==
    /\ section = name
    /\ rendered = notRendered
    /\ rendered' = result
    /\ UNCHANGED <<appVars, section, record, lastRun>>

ApplyColorIcon == Apply("colorIcon", colorIcon(record.icon, record.color))

FormatWhoami == Apply("whoami", formatWhoami(record))

FormatPerfil == Apply("perfil", formatPerfil(record))

FormatEstudios == Apply("estudios", formatEstudios(record))

FormatExperiencia == Apply("experiencia", formatExperiencia(record))

FormatSkills == Apply("skills", formatSkills(record))

FormatCertificaciones == Apply("certificaciones", formatCertificaciones(record))

FormatContacto == Apply("contacto", formatContacto(record))

FormatNext ==
    \/ ApplyColorIcon
    \/ FormatWhoami
    \/ FormatPerfil
    \/ FormatEstudios
    \/ FormatExperiencia
    \/ FormatSkills
    \/ FormatCertificaciones
    \/ FormatContacto

FormatSpec == FormatInit /\ [][FormatNext]_vars

----------------------------------------------------------------------------
(* Claims *)

\* the entry showing `typed` in the prompt, written without the model's helpers
ShownPrompt(typed) == [type |-> "html", content |-> <<promptStart>> \o typed \o <<promptEnd>>]

\* an invocation completes in this step
Completes(c) == c \in calls /\ c.pc = "typed" /\ c \notin calls'

\* C1: in a sequence of runCommand invocations each started after the previous one
\* completed, at the moment an invocation completes the history is exactly its own two
\* entries: the prompt entry showing the full command, then its result entry; nothing
\* of an earlier command or of the banner is left.
C1_OnlyLastCommand ==
    [][\A c \in calls :
          Completes(c) =>
              /\ Len(output') = 2
              /\ output'[1] = ShownPrompt(c.cmd)
              /\ output'[2] = [type |-> "html", content |-> commandResult(c.cmd)]]_vars

\* a second command has completed and only its two entries are in the history
C1_Witness ==
    /\ runs = 2
    /\ calls = {}
    /\ output = <<ShownPrompt(CmdWhoami), [type |-> "html", content |-> formatWhoami(whoami)]>>

\* C2: no two invocations of runCommand (hence no two typing animations) are ever in
\* flight at the same time.
C2_NoOverlap == Cardinality({c \in calls : c.pc = "typing"}) <= 1

\* C3: within one execution (invocations serialized) the order is clear, animate,
\* append.  While the animation runs the history is the single prompt entry, showing a
\* non-empty prefix of the command, and both typing flags are set; when typeCommand has
\* returned the entry shows the whole command and both flags are reset while no result
\* has been appended yet; a history of more than one entry exists only when no
\* invocation is in progress, and an entry is appended to a non-empty history only in
\* that returned state.
C3_State ==
    /\ \A c \in calls :
          c.pc = "typing" =>
              /\ output = <<ShownPrompt(SubSeq(c.cmd, 1, c.i + 1))>>
              /\ c.i + 1 <= Len(c.cmd)
              /\ isTyping /\ isTypingCommand
    /\ \A c \in calls :
          c.pc = "typed" =>
              /\ output = <<ShownPrompt(c.cmd)>>
              /\ ~isTyping /\ ~isTypingCommand
    /\ Len(output) > 1 => calls = {}

C3_Append ==
    (Len(output) >= 1 /\ Len(output') > Len(output)) =>
        /\ \E c \in calls : c.pc = "typed" /\ output = <<ShownPrompt(c.cmd)>>
        /\ ~isTyping /\ ~isTypingCommand

C3_ClearAnimateAppend == []C3_State /\ [][C3_Append]_vars

\* typeCommand has returned with the whole command shown and no result appended yet
C3_Witness ==
    /\ \E c \in calls : c.pc = "typed" /\ c.cmd = CmdAllInfo
    /\ output = <<ShownPrompt(CmdAllInfo)>>
    /\ ~isTyping /\ ~isTypingCommand

\* the result the fixed table assigns to a command string: the section's formatter
\* output for the eight exact strings, the not-found text for every other string
TableResult(cmd) ==
    LET table == { <<CmdWhoami, formatWhoami(whoami)>>,
                   <<CmdProfile, formatPerfil(perfil)>>,
                   <<CmdEdu, formatEstudios(estudios)>>,
                   <<CmdExp, formatExperiencia(experiencia)>>,
                   <<CmdSkills, formatSkills(skills)>>,
                   <<CmdCerts, formatCertificaciones(certificaciones)>>,
                   <<CmdContact, formatContacto(contacto)>>,
                   <<CmdAllInfo, generateAllInfo>> }
    IN  IF \E row \in table : row[1] = cmd
        THEN (CHOOSE row \in table : row[1] = cmd)[2]
        ELSE textToHtml(NotFoundPrefix \o cmd)

\* C4: every invocation appends exactly one entry, of kind html, whose content is the
\* one the fixed table assigns to the command string by exact comparison: the eight
\* strings give eight different outputs, any other string the not-found text.
C4_ExactMatch ==
    /\ [](Cardinality({TableResult(v) : v \in Vocabulary}) = Cardinality(Vocabulary))
    /\ [][\A c \in calls :
          Completes(c) =>
                output' = Append(output, [type |-> "html", content |-> TableResult(c.cmd)])]_vars

\* the upper-case variant of whoami has been answered with the not-found text
C4_Witness ==
    /\ calls = {}
    /\ Len(output) = 2
    /\ output[1] = ShownPrompt(toUpperCase(CmdWhoami))
    /\ output[2].content = textToHtml(NotFoundPrefix \o toUpperCase(CmdWhoami))
    /\ output[2].content # formatWhoami(whoami)

\* the content of the entry appended in this step
Appended == output'[Len(output')].content

RECURSIVE BrForNewline(_)
\* s with each line break replaced by the four characters <br>
BrForNewline(s) ==
    IF s = <<>> THEN <<>>
    ELSE (IF Head(s) = "\n" THEN <<"<", "b", "r", ">">> ELSE <<Head(s)>>) \o BrForNewline(Tail(s))

\* C5 as stated: for every input outside the vocabulary the result entry contains the
\* input verbatim, character for character, and the not-found marker.
C5_Verbatim ==
    [][\A c \in calls :
          (Completes(c) /\ c.cmd \notin Vocabulary) =>
              /\ Contains(Appended, c.cmd)
              /\ Contains(Appended, NotFoundPrefix)]_vars

\* C5 amended: for every input outside the vocabulary the result entry is the
\* not-found marker followed by the input in which each line break is replaced by
\* <br>; an input without a line break appears verbatim.
C5_VerbatimUpToBreaks ==
    [][\A c \in calls :
          (Completes(c) /\ c.cmd \notin Vocabulary) =>
              /\ Appended = NotFoundPrefix \o BrForNewline(c.cmd)
              /\ (\A k \in 1..Len(c.cmd) : c.cmd[k] # "\n") =>
                     Appended = NotFoundPrefix \o c.cmd]_vars

\* an input of two line breaks has been answered
C5_Witness ==
    /\ calls = {}
    /\ Len(output) = 2
    /\ output[1] = ShownPrompt(<<"\n", "\n">>)
    /\ output[2].content = NotFoundPrefix \o <<"<", "b", "r", ">", "<", "b", "r", ">">>

RECURSIVE EscapeHtml(_)
\* s with the markup characters & < > written as character references
EscapeHtml(s) ==
    IF s = <<>> THEN <<>>
    ELSE (CASE Head(s) = "&" -> <<"&", "a", "m", "p", ";">>
            [] Head(s) = "<" -> <<"&", "l", "t", ";">>
            [] Head(s) = ">" -> <<"&", "g", "t", ";">>
            [] OTHER -> <<Head(s)>>) \o EscapeHtml(Tail(s))

\* C6: the not-found entry is the escaped plain-text message: the markup characters of
\* the input are escaped, and each line break is then turned into <br>.
C6_Escaped ==
    [][\A c \in calls :
          (Completes(c) /\ c.cmd \notin Vocabulary) =>
              Appended = NotFoundPrefix \o BrForNewline(EscapeHtml(c.cmd))]_vars

\* C7: the in-progress prompt entry passes through N+1 states, the k-th (k = 0..N)
\* showing the first k characters: after k ticks of the timer it shows k characters,
\* the empty string before the first tick.
C7_OneStatePerTick ==
    \A c \in calls : output = <<ShownPrompt(SubSeq(c.cmd, 1, c.i))>>

\* C8: after the owner of the terminal engine is torn down no tick fires and neither
\* the history nor the typing flags change.
C8_NoTickAfterTeardown ==
    [][~mounted => UNCHANGED <<output, isTyping, isTypingCommand, timerQueue>>]_vars

\* C9: once LoginPanel is torn down none of its timers is left: no tick changes
\* userText or passText and no timer invokes onLogin.
C9_TimersCancelled ==
    [][~panelMounted =>
          /\ loginTimers = {}
          /\ UNCHANGED <<userText, passText, onLoginCalls>>]_vars

\* C10: hasInteracted is false initially, is true exactly when some runCommand has been
\* invoked (so clear alone never sets it), and once true stays true.
C10_HasInteractedOnce ==
    /\ ~hasInteracted
    /\ [][/\ hasInteracted => hasInteracted'
          /\ hasInteracted' <=> runs' > 0]_vars

\* the history has been cleared through clear() after a command, before any command,
\* the flag following the commands only
C10_Witness ==
    /\ hasInteracted
    /\ runs = 1
    /\ calls = {}
    /\ output = <<>>

\* C11: for any sequence of runCommand invocations, while some typing animation is in
\* flight isTypingCommand is true (the final prompt is hidden), and when no runCommand
\* is in progress isTyping and isTypingCommand are both false.
C11_FlagsTrackAnimation ==
    /\ (\E c \in calls : c.pc = "typing") => isTypingCommand
    /\ calls = {} => (~isTyping /\ ~isTypingCommand)

\* the outputs of the seven section formatters in the order whoami, profile,
\* education, experience, skills, certifications, contact
SevenSections ==
    << formatWhoami(whoami), formatPerfil(perfil), formatEstudios(estudios),
       formatExperiencia(experiencia), formatSkills(skills),
       formatCertificaciones(certificaciones), formatContacto(contacto) >>

\* the separator string, written out
SeparatorRule == "-----------------------------------------"

\* number of separators in a text
SeparatorCount(text) == Cardinality({k \in 1..Len(text) : text[k] = SeparatorRule})

\* C12 as stated: the output of 'whoami && cat *.txt' is the seven formatter outputs
\* joined by the separator string, exactly six separators and nothing else added.
C12_PlainJoin ==
    [][\A c \in calls :
          (Completes(c) /\ c.cmd = CmdAllInfo) =>
              /\ Appended = join(SevenSections, <<SeparatorRule>>)
              /\ SeparatorCount(Appended) = 6]_vars

\* C12 amended: the output of 'whoami && cat *.txt' is the seven formatter outputs in
\* the fixed order, each adjacent pair joined by a line break, the separator and two
\* line breaks, the whole between one leading and one trailing line break: exactly six
\* separators, and nothing but these line breaks added.
C12_JoinedOnOwnLines ==
    [][\A c \in calls :
          (Completes(c) /\ c.cmd = CmdAllInfo) =>
              /\ Appended = <<"\n">> \o join(SevenSections, <<"\n", SeparatorRule, "\n", "\n">>)
                                    \o <<"\n">>
              /\ SeparatorCount(Appended) = 6]_vars

\* the composite command has completed and its result shows six separators
C12_Witness ==
    /\ calls = {}
    /\ Len(output) = 2
    /\ output[1] = ShownPrompt(CmdAllInfo)
    /\ SeparatorCount(output[2].content) = 6
    /\ Contains(output[2].content, formatContacto(contacto))

\* the username LoginPanel reveals and the masked password of n characters
Kali == <<"k", "a", "l", "i">>

Stars(n) == [k \in 1..n |-> "*"]

\* the final pause ends in this step: the timer, not the button, invokes onLogin
TimerInvokesOnLogin == "finalTimeout" \in loginTimers /\ "finalTimeout" \notin loginTimers'

\* C13: left to its timers the login simulation is a two-phase reveal.  Each text is
\* always a prefix of its target ('kali', fourteen asterisks) and grows by one
\* character at a time; the password is non-empty only when the username is complete;
\* and the final timer invokes onLogin only when the password is completely shown.
C13_TwoPhaseReveal ==
    /\ [](/\ \E n \in 0..4 : userText = SubSeq(Kali, 1, n)
          /\ \E n \in 0..14 : passText = Stars(n)
          /\ passText # <<>> => userText = Kali)
    /\ [][/\ userText' # userText => userText' = SubSeq(Kali, 1, Len(userText) + 1)
          /\ passText' # passText => passText' = Stars(Len(passText) + 1)
          /\ TimerInvokesOnLogin =>
                 /\ onLoginCalls' = onLoginCalls + 1
                 /\ userText = Kali
                 /\ passText = Stars(14)]_vars

\* the animation ran to its end untouched: both texts complete, onLogin invoked once by
\* the final timer, no timer left
C13_Witness ==
    /\ onLoginCalls = 1
    /\ stage = "terminal"
    /\ userText = Kali
    /\ passText = Stars(14)
    /\ loginTimers = {}

\* C14: the login transition is one-shot: in every execution onLogin is invoked at
\* most once, whenever the manual login button is pressed.
C14_OnLoginAtMostOnce == onLoginCalls <= 1

\* C15: no input crashes or hangs the terminal.  For every command string, the empty
\* one and those outside the vocabulary included, and every set of invocations,
\* overlapping or not, each invocation eventually completes when the timers are fair;
\* it completes by appending a string (no error is raised), and at that moment
\* isTyping and isTypingCommand are false.
C15_EveryInvocationCompletes ==
    /\ \A id \in 1..MaxRuns :
          (\E c \in calls : c.id = id) ~> (\A c \in calls : c.id # id)
    /\ [][\A c \in calls :
              Completes(c) =>
                  /\ Len(output') = Len(output) + 1
                  /\ output'[Len(output')].content # TypeError
                  /\ ~isTyping' /\ ~isTypingCommand']_vars

\* two overlapping invocations have both completed: one cleared history holds the
\* prompt and both results
C15_Witness ==
    /\ runs = 2
    /\ calls = {}
    /\ timerQueue = <<>>
    /\ Len(output) = 3
    /\ ~isTyping /\ ~isTypingCommand

\* a list field that is missing or empty
EmptyOrMissing(l) == ~isArray(l) \/ Len(l) = 0

\* the sub-lists of a record, each with the header line it is rendered under (the
\* end of the title line for a list that follows the title)
SubLists(sec, rec) ==
    CASE sec = "perfil" ->
             << <<"=== ESPECIALIZACION ===", rec.specialization>>,
                <<"=== OBJETIVOS ===", rec.goals>> >>
      [] sec = "estudios" -> << <<" ===", rec.items>> >>
      [] sec = "experiencia" ->
             << <<" ===", rec.items>> >> \o
             (IF ~EmptyOrMissing(rec.items)
              THEN << <<"     * Responsabilidades:", rec.items[1].responsabilidades>>,
                      <<"     * Logros:", rec.items[1].logros>>,
                      <<"     * Stack:", rec.items[1].stackGroups>> >>
              ELSE <<>>)
      [] sec = "skills" -> << <<" ===", rec.categorias>> >>
      [] sec = "certificaciones" ->
             << <<"* OBTENIDAS:", rec.obtenidas>>,
                <<"* EN CURSO:", rec.enPreparacion>>,
                <<"* OBJETIVOS:", rec.objetivos>> >>
      [] sec = "contacto" ->
             << <<" ===", rec.items>>, <<"* DISPONIBILIDAD:", rec.disponibilidad>> >>
      [] OTHER -> <<>>

\* text has the header line, and the next line that is not blank is a lone dash
PlaceholderUnder(text, hdr) ==
    \E k \in 1..Len(text) :
        /\ text[k] = hdr
        /\ \E d \in {k + 2, k + 3} :
              /\ d + 1 <= Len(text)
              /\ \A m \in (k + 1)..(d - 1) : text[m] = "\n"
              /\ text[d] \in {"-", "     -"}
              /\ text[d + 1] = "\n"

\* C16: in every section formatter an empty or missing sub-list of a record (whose
\* title is present) is rendered as the single placeholder line under its header: no
\* error is raised and the header is not omitted.
C16_PlaceholderUnderHeader ==
    (rendered # notRendered /\ SubLists(section, record) # <<>> /\ record.title # undefined) =>
        \A k \in 1..Len(SubLists(section, record)) :
            EmptyOrMissing(SubLists(section, record)[k][2]) =>
                /\ rendered # TypeError
                /\ PlaceholderUnder(rendered, SubLists(section, record)[k][1])

\* the seven section formatters
SectionNames ==
    {"whoami", "perfil", "estudios", "experiencia", "skills", "certificaciones", "contacto"}

\* C17: no section formatter fails on a record with a missing field: it returns a
\* string, never raises, and a missing string is rendered as the empty string (not as
\* the text of the missing value).
C17_NeverRaises ==
    (section \in SectionNames /\ rendered # notRendered) =>
        /\ rendered # TypeError
        /\ \A k \in 1..Len(rendered) : rendered[k] # "undefined"

\* the six keys of colorIcon's table
KnownColors == {<<"green">>, <<"orange">>, <<"red">>, <<"blue">>, <<"yellow">>, <<"white">>}

\* C18: for every color key that is missing or is none of the six known keys, keys
\* naming built-in object properties included, colorIcon uses the color #ffffff.
C18_DefaultColor ==
    (section = "colorIcon" /\ rendered # notRendered /\ record.color \notin KnownColors) =>
        /\ Len(rendered) = 5
        /\ rendered[1] = "<span style=\"color:"
        /\ rendered[2] = "#ffffff"

\* the item groups of a record: every list whose items may carry an icon
ItemGroups(sec, rec) ==
    LET list(v) == IF isArray(v) THEN v ELSE <<>>
        inner(v, f) == IF EmptyOrMissing(v) THEN <<>> ELSE list(v[1][f])
    IN  CASE sec = "perfil" -> <<list(rec.specialization), list(rec.goals)>>
          [] sec = "estudios" -> <<inner(rec.items, "temas")>>
          [] sec = "experiencia" ->
                 <<inner(rec.items, "responsabilidades"), inner(rec.items, "logros"),
                   inner(rec.items, "stackGroups")>>
          [] sec = "skills" -> <<inner(rec.categorias, "items")>>
          [] sec = "certificaciones" ->
                 <<list(rec.obtenidas), list(rec.enPreparacion), list(rec.objetivos)>>
          [] sec = "contacto" -> <<list(rec.items), list(rec.disponibilidad)>>
          [] OTHER -> <<>>

\* the items of the record's groups that carry no icon, as (group, index) pairs
IconlessItems(sec, rec) ==
    LET groups == ItemGroups(sec, rec)
    IN  UNION {{<<g, k>> : k \in {j \in 1..Len(groups[g]) : groups[g][j].icon = undefined}}
               : g \in 1..Len(groups)}

\* the lines of a text that begin with the dash glyph followed by the item text (every
\* item of the generated records has the text 'nmap')
DashLines(text) ==
    {k \in 1..(Len(text) - 2) : text[k] = "-" /\ text[k + 1] = " " /\ text[k + 2] = "nmap"}

\* C19: every item of an item group that carries no icon is rendered as the dash
\* glyph followed by the item text, in every item group: a formatter that returns has
\* one such line per item without icon.
C19_DashForMissingIcon ==
    (section \in SectionNames /\ rendered # notRendered /\ rendered # TypeError) =>
        Cardinality(DashLines(rendered)) = Cardinality(IconlessItems(section, record))

WellFormed(sec, rec) ==
    /\ sec \in {"certificaciones", "contacto"}
    /\ rec.title # undefined
    /\ \A k \in 1..Len(ItemGroups(sec, rec)) :
          \A j \in 1..Len(ItemGroups(sec, rec)[k]) : ItemGroups(sec, rec)[k][j].icon # undefined
    /\ IF sec = "certificaciones"
       THEN /\ isArray(rec.obtenidas) /\ isArray(rec.enPreparacion) /\ isArray(rec.objetivos)
            /\ \A k \in 1..Len(rec.obtenidas) : rec.obtenidas[k].progreso # undefined
            /\ \A k \in 1..Len(rec.enPreparacion) : rec.enPreparacion[k].progreso # undefined
       ELSE isArray(rec.items) /\ isArray(rec.disponibilidad) /\ isArray(rec.idiomas)

\* the output of the simpler version of the formatter of a section
SimpleVersion(sec, rec) ==
    IF sec = "certificaciones" THEN formatCertificacionesSimple(rec) ELSE formatContactoSimple(rec)

\* the field values of the generated records (each one element of a rendered text)
FieldValues ==
    {"nmap", "2023", "123", "ine.com", "github.com", "Pentesting", "60%", "Ingles"}

\* C21: for every well-formed record, every field value that the simpler version of
\* formatCertificaciones or formatContacto renders is also in the output of the
\* defensive version.
C21_DefensiveKeepsFields ==
    (rendered # notRendered /\ WellFormed(section, record)) =>
        /\ SimpleVersion(section, record) # TypeError
        /\ rendered # TypeError
        /\ \A v \in FieldValues :
              (\E k \in 1..Len(SimpleVersion(section, record)) :
                    SimpleVersion(section, record)[k] = v)
                  => \E k \in 1..Len(rendered) : rendered[k] = v

\* C22: the welcome message is shown, next to the final prompt, in every state before
\* the first runCommand invocation and in no state after it: it never reappears after
\* a later command or a clear.
C22_WelcomeUntilFirstCommand ==
    /\ runs = 0 => (welcomeShown /\ finalPromptShown)
    /\ runs > 0 => ~welcomeShown

\* a command has completed and the history has been cleared: the final prompt is
\* shown without the welcome message
C22_Witness ==
    /\ runs = 1
    /\ calls = {}
    /\ output = <<>>
    /\ finalPromptShown
    /\ ~welcomeShown

\* C23: selecting an option of the side menu closes the menu and executes the option's
\* command: right after the click menuOpen is false and exactly one runCommand
\* invocation, carrying the option's command string, has been started.
C23_MenuOptionClosesAndRuns ==
    [][\A cmd \in SideMenuCommands :
          MenuCommand(cmd) =>
              /\ menuOpen' = FALSE
              /\ runs' = runs + 1
              /\ calls \subseteq calls'
              /\ calls' \ calls = {[id |-> runs + 1, cmd |-> cmd, i |-> 0, pc |-> "typing"]}]_vars

\* the last option of the side menu has just been selected on a small viewport: the
\* menu is closed and the invocation of its command is at its first character
C23_Witness ==
    /\ ~LargeViewport
    /\ stage = "terminal"
    /\ ~menuOpen
    /\ runs = 1
    /\ calls = {[id |-> 1, cmd |-> CmdAllInfo, i |-> 0, pc |-> "typing"]}
    /\ output = <<ShownPrompt(SubSeq(CmdAllInfo, 1, 1))>>

\* C24: the side menu is open only in terminal mode: in every reachable state menuOpen
\* implies stage = "terminal".
C24_MenuOnlyInTerminal == menuOpen => stage = "terminal"

\* the menu has been opened from the header
C24_Witness ==
    /\ menuOpen
    /\ stage = "terminal"
    /\ onLoginCalls = 1

\* a typing tick of invocation c happens in this step
Ticks(c) == c \in calls /\ c.pc = "typing" /\ \E d \in calls' : d.id = c.id /\ d.i = c.i + 1

\* the prompt entry invocation c has written so far
OwnPrompt(c) == ShownPrompt(SubSeq(c.cmd, 1, c.i + 1))

\* C25: for any interleaving of runCommand and clear calls, each typing tick modifies
\* only the in-progress prompt entry of its own command: it never overwrites an entry
\* of another command and never changes the length of the history; and while an
\* animation is in flight the history is non-empty with that animation's prompt entry
\* as its last entry.
C25_TickOwnPromptOnly ==
    /\ [](\A c \in calls :
             c.pc = "typing" =>
                 /\ Len(output) > 0
                 /\ output[Len(output)] = OwnPrompt(c))
    /\ [][\A c \in calls :
             Ticks(c) =>
                 /\ Len(output') = Len(output)
                 /\ \A k \in 1..Len(output) :
                       output'[k] # output[k] =>
                           /\ k = Len(output)
                           /\ output[k] = OwnPrompt(c)]_vars

\* C26: clear() sets the history to empty and leaves isTyping, isTypingCommand and
\* hasInteracted unchanged; print appends exactly one entry at the end of the history
\* and leaves all earlier entries and the three flags unchanged.
C26_ClearAndPrintFrames ==
    [][/\ Clear =>
             /\ output' = <<>>
             /\ UNCHANGED <<isTyping, isTypingCommand, hasInteracted>>
       /\ \A c \in calls :
             Completes(c) =>
                 /\ Len(output') = Len(output) + 1
                 /\ SubSeq(output', 1, Len(output)) = output
                 /\ output'[Len(output')] = [type |-> "html", content |-> commandResult(c.cmd)]
                 /\ UNCHANGED <<isTyping, isTypingCommand, hasInteracted>>]_vars

\* two invocations overlapped and both have printed: the second result was appended
\* after the first, which is still in place
C26_Witness ==
    /\ calls = {}
    /\ runs = 2
    /\ Len(output) = 3
    /\ output[2] = [type |-> "html", content |-> formatWhoami(whoami)]
    /\ output[3].type = "html"
    /\ hasInteracted /\ ~isTyping /\ ~isTypingCommand

\* the eight results built from static content only
StaticResults ==
    { formatWhoami(whoami), formatPerfil(perfil), formatEstudios(estudios),
      formatExperiencia(experiencia), formatSkills(skills),
      formatCertificaciones(certificaciones), formatContacto(contacto), generateAllInfo }

\* the prompt entries that show a prefix of a vocabulary command
VocabularyPrompts ==
    { ShownPrompt(SubSeq(v, 1, n)) : <<v, n>> \in { <<w, m>> \in Vocabulary \X (0..20) : m <= Len(w) } }

\* C27: every command string the presentation layer passes to runCommand (the eight
\* PageHeader buttons and the eight SideMenu buttons) belongs to the fixed vocabulary;
\* hence in the running application every invocation carries a vocabulary command, no
\* entry holds the not-found text, and every html entry is either a prompt showing a
\* prefix of a fixed command string or one of the results built from static content.
C27_ButtonsInVocabulary ==
    /\ HeaderCommands = Vocabulary
    /\ SideMenuCommands = Vocabulary
    /\ \A c \in calls : c.cmd \in Vocabulary
    /\ \A k \in 1..Len(output) :
          /\ output[k].type = "html" =>
                 \/ output[k] \in VocabularyPrompts
                 \/ output[k].content \in StaticResults
          /\ \A cmd \in HeaderCommands \cup SideMenuCommands :
                 output[k].content # textToHtml(NotFoundPrefix \o cmd)

\* the CONTACTO button of the header has been executed on a large viewport
C27_Witness ==
    /\ LargeViewport
    /\ calls = {}
    /\ output = <<ShownPrompt(CmdContact), [type |-> "html", content |-> formatContacto(contacto)]>>

\* C28: no command is executed during the login stage: every runCommand invocation
\* starts in a state where stage = "terminal", and once the stage is "terminal" it
\* never returns to "login", for any sequence of login ticks, button clicks and menu
\* actions.
C28_NoCommandDuringLogin ==
    [][/\ runs' # runs => stage = "terminal"
       /\ stage = "terminal" => stage' = "terminal"]_vars

\* C29: under fair timers and with no user interaction the login simulation
\* terminates: from the initial state the stage eventually becomes "terminal"; it does
\* so after exactly 5 ticks of the username interval and 15 ticks of the password
\* interval; and from then on no login timer is scheduled.
C29_LoginTerminates ==
    /\ <>(stage = "terminal")
    /\ [](stage = "terminal" =>
             /\ loginI = 5
             /\ loginJ = 15
             /\ loginTimers = {})
    /\ [][/\ loginI' # loginI => (loginI' = loginI + 1 /\ "userInterval" \in loginTimers)
          /\ loginJ' # loginJ => (loginJ' = loginJ + 1 /\ "passInterval" \in loginTimers)]_vars

\* the simulation has run to its end by its timers alone: five username ticks, fifteen
\* password ticks, the terminal shown and nothing scheduled
C29_Witness ==
    /\ stage = "terminal"
    /\ ~panelMounted
    /\ loginI = 5
    /\ loginJ = 15
    /\ loginTimers = {}
    /\ runs = 0

\* the banner the viewport width calls for
SelectedBanner ==
    CASE innerWidth < 640 -> ascii.bannerMobile
      [] innerWidth >= 640 /\ innerWidth < 1024 -> ascii.bannerTablet
      [] OTHER -> ascii.bannerDesktop

\* C30: in the initial state the history is exactly one raw entry holding the banner
\* selected by the viewport width (mobile below 640, tablet from 640 and below 1024,
\* desktop otherwise) and the three flags are false; the first runCommand removes the
\* banner entry and it never reappears: once a command has been run the history holds
\* no raw entry.
C30_BannerUntilFirstCommand ==
    /\ output = <<[type |-> "raw", content |-> SelectedBanner]>>
    /\ ~isTyping /\ ~isTypingCommand /\ ~hasInteracted
    /\ [](runs > 0 => \A k \in 1..Len(output) : output[k].type # "raw")
    /\ [][\A k \in 1..Len(output') : output'[k].type = "raw" => output' = output]_vars

\* on a viewport of exactly 640 the first command has completed: the tablet banner is
\* gone and the history is the command's two entries
C30_Witness ==
    /\ innerWidth = 640
    /\ runs = 1
    /\ calls = {}
    /\ hasInteracted
    /\ output = <<ShownPrompt(CmdWhoami), [type |-> "html", content |-> formatWhoami(whoami)]>>

====
